---------------------------- MODULE Spec2Model ----------------------------
(***************************************************************************)
(* Moderation pipeline of the BADWALL bot: ProfanityMiddleware.__call__    *)
(* (src/middlewares/profanity_middleware.py), the Statistics aggregator    *)
(* (src/utils/statistics.py), the daily report job send_daily_stats        *)
(* (src/bot.py) and the unban handler handle_unban_callback                *)
(* (src/handlers/common.py).                                               *)
(*                                                                         *)
(* The bot runs on one asyncio event loop: the code between two awaits of  *)
(* a coroutine is one atomic step, and every await of an external call     *)
(* (get_chat_member, the voice download and recognition, delete, ban,      *)
(* send_message, the downstream handler) is a point where other coroutines *)
(* run.  Each action below is one such step: the return of the awaited     *)
(* call together with all the synchronous code up to the next await.       *)
(*                                                                         *)
(* Texts are sequences of Unicode code points.  Probabilities are in       *)
(* thousandths (0.7 is 700).  Callback payloads are sequences of           *)
(* one-character strings.                                                  *)
(***************************************************************************)
EXTENDS Integers, Sequences, FiniteSets, TLC

VARIABLES
    runs,                       \* slot -> the state of one __call__ coroutine
    statistics,                 \* the global Statistics object (bot.py:21)
    daily,                      \* the send_daily_stats coroutine (bot.py:24)
    SPEECH_RECOGNITION_AVAILABLE, \* profanity_middleware.py:16-21, fixed at import
    has_recognizer,             \* whether the attribute self.recognizer exists:
                                \* __init__ assigns none, so only when set from outside
    received,                   \* number of messages received so far
    reports,                    \* number of send_daily_stats invocations so far
    made,                       \* ghost: every increment ever made, by counter, and
                                \* every event.delete() ever called
    reported,                   \* ghost: sum of the totals of every rendered report
    unban,                      \* the handle_unban_callback coroutine (common.py:43)
    probe                       \* one call of _has_forbidden_chars: its text and result

vars == <<runs, statistics, daily, SPEECH_RECOGNITION_AVAILABLE, has_recognizer,
          received, reports, made, reported, unban, probe>>

---------------------------------------------------------------------------
(* Bounds of the model.                                                    *)

MaxMessages == 1        \* messages received in one behaviour
MaxReports == 1         \* invocations of the daily job in one behaviour
MaxCallbacks == 2       \* activations of the unban control in one behaviour
MaxInFlight == 2        \* messages received when runs are in flight together
MaxTextLen == 2         \* length of the texts the character classifier is called with

---------------------------------------------------------------------------
(* Configuration (src/config.py), read from the environment at start-up.   *)

\* PROFANITY_THRESHOLD, "рекомендуется 0.7", in thousandths.
PROFANITY_THRESHOLD == 700

\* Chats 100 and 101 are groups on the allow-list; 55 is the private chat of
\* user 55, whose id also stands on the allow-list.
ALLOWED_CHAT_IDS == {100, 101, 55}

\* The administrators, a list: the loops over it keep its order.
ADMIN_IDS == <<900, 901>>

\* EXEMPT_SENDER_CHAT_IDS: the sender_chat ids whose messages are not to be
\* moderated, here the channel linked to chat 100.
EXEMPT_SENDER_CHAT_IDS == {-1001}

---------------------------------------------------------------------------
(* Characters and the two pure classifiers.                                *)

Max(seq) == CHOOSE x \in {seq[i] : i \in 1..Len(seq)} :
                \A j \in 1..Len(seq) : seq[j] <= x

\* re [a-zA-Z]
IsLatin(c) == c \in 65..90 \/ c \in 97..122

\* forbidden_special_chars_pattern: [@#$%^&*+=|\\/<>~`]
forbidden_special_chars == {64, 35, 36, 37, 94, 38, 42, 43, 61, 124, 92, 47, 60, 62, 126, 96}

\* str.isdigit(): the ASCII digits and, of the other Unicode digits, the
\* superscripts 2, 3, 1 and the Arabic-Indic digits.
IsDigit(c) == c \in 48..57 \/ c \in {178, 179, 185} \/ c \in 1632..1641

\* The literal ' .,!?:;-()[]{}"\'«»—…' of _has_forbidden_chars.
allowed_punctuation == {32, 46, 44, 33, 63, 58, 59, 45, 40, 41, 91, 93, 123, 125,
                        34, 39, 171, 187, 8212, 8230}

is_emoji(c) ==
    \/ c \in 127744..129535      \* 0x1F300 - 0x1F9FF
    \/ c \in 9728..9983          \* 0x2600 - 0x26FF
    \/ c \in 9984..10175         \* 0x2700 - 0x27BF
    \/ c \in 65024..65039        \* 0xFE00 - 0xFE0F
    \/ c \in 127995..127999      \* 0x1F3FB - 0x1F3FF
    \/ c \in 127462..127487      \* 0x1F1E6 - 0x1F1FF
    \/ c \in 129280..129535      \* 0x1F900 - 0x1F9FF
    \/ c \in 128640..128767      \* 0x1F680 - 0x1F6FF
    \/ c \in 129536..129791      \* 0x1FA00 - 0x1FAFF

\* One pass of the loop "for char in text" that does not return True.
AllowedChar(c) ==
    \/ c \in 1024..1279 \/ c = 1105 \/ c = 1025     \* 'Ѐ'..'ӿ', ё, Ё
    \/ IsDigit(c)
    \/ c \in allowed_punctuation
    \/ is_emoji(c)

\* A plausible slip: the Latin test dropped, only the symbol list kept.
has_forbidden_chars_NoLatin(text) ==
    /\ text # <<>>
    /\ \E i \in 1..Len(text) : text[i] \in forbidden_special_chars

has_forbidden_chars(text) ==
    /\ text # <<>>
    /\ \/ \E i \in 1..Len(text) : IsLatin(text[i])
       \/ \E i \in 1..Len(text) : text[i] \in forbidden_special_chars
       \/ \E i \in 1..Len(text) : ~AllowedChar(text[i])

\* The characters of the texts the classifier is called with on its own:
\* Russian letters, a Cyrillic letter of another alphabet, a Latin letter, a
\* listed symbol, a digit, white space, punctuation, an emoji, an
\* underscore and an ideograph.
ProbeChars == {1076, 1071, 1105, 1110, 97, 64, 53, 32, 10, 9, 33, 171, 128512, 95, 20013}

RECURSIVE TextsUpTo(_)
TextsUpTo(n) ==
    IF n = 0 THEN {<<>>}
    ELSE LET shorter == TextsUpTo(n - 1)
         IN  shorter \cup { Append(t, c) : t \in shorter, c \in ProbeChars }

ProbeTexts == TextsUpTo(MaxTextLen)

IdleProbe == [called |-> FALSE, text |-> <<>>, rejected |-> FALSE]

\* One call of _has_forbidden_chars.
Classify(text) ==
    /\ probe' = [called |-> TRUE, text |-> text, rejected |-> has_forbidden_chars(text)]
    /\ UNCHANGED <<runs, statistics, daily, SPEECH_RECOGNITION_AVAILABLE, has_recognizer,
                   received, reports, made, reported, unban>>

\* re \w for the characters of the model: letters, digits, underscore.
IsWordChar(c) == IsLatin(c) \/ IsDigit(c) \/ c = 95 \/ c \in 1024..1279 \/ c \in 19968..40959

\* re \s
IsSpace(c) == c \in {32, 9, 10, 11, 12, 13, 160, 8232, 8233}

\* (?i): the ASCII letters fold to lower case.
Lower(c) == IF c \in 65..90 THEN c + 32 ELSE c

\* The alternatives https?://  www\.  t\.me/  telegram\.me/ , lower case.
url_prefixes == {
    <<104, 116, 116, 112, 58, 47, 47>>,
    <<104, 116, 116, 112, 115, 58, 47, 47>>,
    <<119, 119, 119, 46>>,
    <<116, 46, 109, 101, 47>>,
    <<116, 101, 108, 101, 103, 114, 97, 109, 46, 109, 101, 47>> }

\* The class [^\s<>"{}|\\^`\[\]] that must follow the prefix at least once.
UrlBodyChar(c) == ~IsSpace(c) /\ c \notin {60, 62, 34, 123, 125, 124, 92, 94, 96, 91, 93}

PrefixAt(text, i, pre) ==
    /\ i + Len(pre) - 1 <= Len(text)
    /\ \A k \in 1..Len(pre) : Lower(text[i + k - 1]) = pre[k]

\* url_pattern.search(text): \b, a prefix, one body character.  Every prefix
\* starts with a word character, so \b holds where the character before is
\* none (or there is no character before).
url_pattern_search(text) ==
    \E i \in 1..Len(text) :
        /\ i = 1 \/ ~IsWordChar(text[i - 1])
        /\ \E pre \in url_prefixes :
              /\ PrefixAt(text, i, pre)
              /\ i + Len(pre) <= Len(text)
              /\ UrlBodyChar(text[i + Len(pre)])

LinkEntityTypes == {"url", "text_link"}

\* A plausible slip: the caption entities of a media message are not looked at.
has_urls_NoCaptionEntities(m) ==
    \/ m.entities \cap LinkEntityTypes # {}
    \/ LET text_to_check == IF m.text # <<>> THEN m.text ELSE m.caption
       IN  text_to_check # <<>> /\ url_pattern_search(text_to_check)

has_urls(m) ==
    \/ m.entities \cap LinkEntityTypes # {}
    \/ m.caption_entities \cap LinkEntityTypes # {}
    \/ LET text_to_check == IF m.text # <<>> THEN m.text ELSE m.caption
       IN  text_to_check # <<>> /\ url_pattern_search(text_to_check)

---------------------------------------------------------------------------
(* Statistics (src/utils/statistics.py).  by_chat is a defaultdict: a chat  *)
(* gets its row the first time a counter of it is touched.                 *)

ZeroRow == [checked |-> 0, deleted |-> 0, deleted_forbidden_chars |-> 0,
            deleted_urls |-> 0, deleted_profanity |-> 0, banned |-> 0]

reset == [total_checked |-> 0, total_deleted |-> 0, deleted_forbidden_chars |-> 0,
          deleted_urls |-> 0, deleted_profanity |-> 0, total_banned |-> 0,
          by_chat |-> <<>>]

Row(s, chat_id) == IF chat_id \in DOMAIN s.by_chat THEN s.by_chat[chat_id] ELSE ZeroRow

WithRow(s, chat_id, row) ==
    [c \in DOMAIN s.by_chat \cup {chat_id} |-> IF c = chat_id THEN row ELSE s.by_chat[c]]

\* A plausible slip: the row of the chat is started anew instead of
\* incremented.
add_checked_RowRestarts(s, chat_id) ==
    [s EXCEPT !.total_checked = @ + 1,
              !.by_chat = WithRow(s, chat_id, [ZeroRow EXCEPT !.checked = 1])]

add_checked(s, chat_id) ==
    [s EXCEPT !.total_checked = @ + 1,
              !.by_chat = WithRow(s, chat_id, [Row(s, chat_id) EXCEPT !.checked = @ + 1])]

\* A plausible slip: the category is counted globally and not in the row of
\* the chat.
add_deleted_RowWithoutCategory(s, chat_id, deletion_type) ==
    LET s1 == [s EXCEPT !.total_deleted = @ + 1]
        s2 == CASE deletion_type = "forbidden_chars" ->
                        [s1 EXCEPT !.deleted_forbidden_chars = @ + 1]
                  [] deletion_type = "urls" -> [s1 EXCEPT !.deleted_urls = @ + 1]
                  [] deletion_type = "profanity" -> [s1 EXCEPT !.deleted_profanity = @ + 1]
                  [] OTHER -> s1
    IN  [s2 EXCEPT !.by_chat =
            WithRow(s, chat_id, [Row(s, chat_id) EXCEPT !.deleted = @ + 1])]

add_deleted(s, chat_id, deletion_type) ==
    LET row  == [Row(s, chat_id) EXCEPT !.deleted = @ + 1]
        row2 == CASE deletion_type = "forbidden_chars" ->
                        [row EXCEPT !.deleted_forbidden_chars = @ + 1]
                  [] deletion_type = "urls" -> [row EXCEPT !.deleted_urls = @ + 1]
                  [] deletion_type = "profanity" -> [row EXCEPT !.deleted_profanity = @ + 1]
                  [] OTHER -> row
        s1   == [s EXCEPT !.total_deleted = @ + 1]
        s2   == CASE deletion_type = "forbidden_chars" ->
                        [s1 EXCEPT !.deleted_forbidden_chars = @ + 1]
                  [] deletion_type = "urls" -> [s1 EXCEPT !.deleted_urls = @ + 1]
                  [] deletion_type = "profanity" -> [s1 EXCEPT !.deleted_profanity = @ + 1]
                  [] OTHER -> s1
    IN  [s2 EXCEPT !.by_chat = WithRow(s, chat_id, row2)]

add_banned(s, chat_id) ==
    [s EXCEPT !.total_banned = @ + 1,
              !.by_chat = WithRow(s, chat_id, [Row(s, chat_id) EXCEPT !.banned = @ + 1])]

\* The report text, by what it carries: nothing when total_checked is 0, else
\* the six totals and, when more than one chat has a row, the rows.
get_stats_text(s) ==
    IF s.total_checked = 0
    THEN [activity |-> FALSE]
    ELSE [activity |-> TRUE,
          total_checked |-> s.total_checked, total_deleted |-> s.total_deleted,
          deleted_forbidden_chars |-> s.deleted_forbidden_chars,
          deleted_urls |-> s.deleted_urls, deleted_profanity |-> s.deleted_profanity,
          total_banned |-> s.total_banned,
          by_chat |-> IF Cardinality(DOMAIN s.by_chat) > 1 THEN s.by_chat ELSE <<>>]

\* The totals a reader of the report learns.
ReportTotals(text) ==
    IF text.activity
    THEN [checked |-> text.total_checked, deleted |-> text.total_deleted,
          banned |-> text.total_banned]
    ELSE [checked |-> 0, deleted |-> 0, banned |-> 0]

---------------------------------------------------------------------------
(* Messages.  from_user 0 is "no user" (a channel post): sender_id is None. *)

Slots == {1, 2}

T_da == <<1076, 1072>>                      \* "да"
T_ok == <<111, 107>>                        \* "ok"
T_tme == <<116, 46, 109, 101, 47, 120>>     \* "t.me/x"
T_visit == <<118, 105, 115, 105, 116, 32, 104, 116, 116, 112, 58, 47, 47,
             120, 46, 99, 111, 109>>         \* "visit http://x.com"

\* What the message carries, with the scorer's answer for its text or caption.
Content(text, caption, entities, caption_entities, voice, proba) ==
    [text |-> text, caption |-> caption, entities |-> entities,
     caption_entities |-> caption_entities, voice |-> voice, proba |-> proba]

Contents ==
    { Content(T_da, <<>>, {}, {}, FALSE, pr) : pr \in {<<699>>, <<700>>, <<120, 950>>} }
    \cup
    { Content(T_ok, <<>>, {}, {}, FALSE, <<950>>),
      Content(T_ok, <<>>, {"url"}, {}, FALSE, <<10>>),
      Content(T_tme, <<>>, {}, {}, FALSE, <<10>>),
      Content(T_visit, <<>>, {"url"}, {}, FALSE, <<10>>),
      Content(T_da, <<>>, {"text_link"}, {}, FALSE, <<950>>),
      Content(T_da, <<>>, {"bold"}, {}, FALSE, <<10>>),
      Content(<<>>, T_da, {}, {"url"}, FALSE, <<950>>),
      Content(<<>>, T_da, {}, {}, FALSE, <<950>>),
      Content(<<>>, T_ok, {}, {}, FALSE, <<10>>),
      Content(<<>>, <<>>, {}, {}, FALSE, <<>>),
      Content(<<>>, <<>>, {}, {}, TRUE, <<>>),
      Content(<<>>, T_ok, {}, {}, TRUE, <<950>>),
      Content(<<>>, T_da, {}, {}, TRUE, <<10>>) }

\* The chats of the model: an allowed supergroup, a group off the allow-list,
\* and two private chats (a private chat has the id of its user).
Chats == { [id |-> 100, type |-> "supergroup"], [id |-> 200, type |-> "group"],
           [id |-> 55, type |-> "private"], [id |-> 56, type |-> "private"] }

Message(chat, from_user, c) ==
    [chat_id |-> chat.id, chat_type |-> chat.type, from_user |-> from_user,
     sender_chat |-> 0,
     text |-> c.text, caption |-> c.caption, entities |-> c.entities,
     caption_entities |-> c.caption_entities, voice |-> c.voice, proba |-> c.proba]

\* A message posted on behalf of a chat: event.sender_chat is set.
OnBehalfOf(m, sender_chat) == [m EXCEPT !.sender_chat = sender_chat]

Messages ==
    { Message(chat, u, c) : chat \in {ch \in Chats : ch.type # "private"},
                            u \in {0, 55}, c \in Contents }
    \cup
    { OnBehalfOf(Message([id |-> 100, type |-> "supergroup"], u, c), x) :
        u \in {0, 55}, x \in EXEMPT_SENDER_CHAT_IDS,
        c \in { Content(T_da, <<>>, {}, {}, FALSE, <<699>>),
                Content(T_da, <<>>, {}, {}, FALSE, <<700>>),
                Content(<<>>, T_ok, {}, {}, FALSE, <<10>>) } }
    \cup
    { Message(chat, chat.id, c) : chat \in {ch \in Chats : ch.type = "private"},
                                  c \in Contents }

\* The messages of the runs in flight together: in chat 100 a text of member
\* 55 that is rejected for profanity, a voice message and a Latin text, in
\* chat 101 three channel posts, one rejected for profanity, one allowed and
\* one that carries a link.
ConcurrentMessages ==
    { Message([id |-> 100, type |-> "supergroup"], 55,
              Content(T_da, <<>>, {}, {}, FALSE, <<700>>)),
      Message([id |-> 100, type |-> "supergroup"], 0,
              Content(<<>>, <<>>, {}, {}, TRUE, <<>>)),
      Message([id |-> 101, type |-> "supergroup"], 0,
              Content(T_da, <<>>, {}, {}, FALSE, <<700>>)),
      Message([id |-> 101, type |-> "supergroup"], 0,
              Content(T_da, <<>>, {}, {}, FALSE, <<699>>)),
      Message([id |-> 100, type |-> "supergroup"], 0,
              Content(T_ok, <<>>, {}, {}, FALSE, <<950>>)),
      Message([id |-> 101, type |-> "supergroup"], 0,
              Content(T_da, <<>>, {"text_link"}, {}, FALSE, <<950>>)) }

NoEvent == Message([id |-> 0, type |-> "none"], 0, Content(<<>>, <<>>, {}, {}, FALSE, <<>>))

\* What the recognition returns when it runs: None, or a text with the
\* scorer's answer for that text.
NoTranscript == [text |-> <<>>, proba |-> <<>>]

Transcripts == { NoTranscript,
                 [text |-> T_da, proba |-> <<10>>],
                 [text |-> T_da, proba |-> <<950>>],
                 [text |-> T_ok, proba |-> <<10>>] }

---------------------------------------------------------------------------
(* One __call__ coroutine.                                                 *)

NoIncs == [checked |-> 0, forbidden_chars |-> 0, urls |-> 0, profanity |-> 0, banned |-> 0]

IdleRun ==
    [pc |-> "idle",             \* the await the coroutine is suspended at
     event |-> NoEvent,
     scope |-> "none",          \* private | out_of_scope | privileged | in_scope
     chat_member |-> "none",    \* the answer of get_chat_member, "error" when it raised
     transcribed_text |-> NoTranscript,
     path |-> "none",           \* the branch that enforces: voice | text
     category |-> "none",       \* the classifier that rejected
     checks |-> <<>>,           \* the classifiers run, in order
     deletes |-> 0,             \* event.delete() calls
     delete_ok |-> FALSE,       \* the delete returned without raising
     bans |-> 0,                \* ban_chat_member calls
     ban_ok |-> FALSE,
     sends |-> <<>>,            \* the administrators a notification was sent to
     send_ok |-> <<>>,          \* for each of these sends, whether it returned
     handled |-> 0,             \* handler(event, data) calls
     incs |-> NoIncs,           \* add_* calls made by this run
     outcome |-> "none"]        \* dropped | passed | rejected | raised

\* The run, the statistics and the ghost count of increments, threaded
\* through the synchronous code of one step.
Ctx(r, s, g) == [run |-> r, stats |-> s, made |-> g]

Checked(ctx) ==
    [ctx EXCEPT !.stats = add_checked(@, ctx.run.event.chat_id),
                !.made.checked = @ + 1, !.run.incs.checked = @ + 1]

\* A plausible slip: add_deleted is called on both sides of the delete.
Deleted_Twice(ctx, deletion_type) ==
    [ctx EXCEPT !.stats = add_deleted(add_deleted(@, ctx.run.event.chat_id, deletion_type),
                                      ctx.run.event.chat_id, deletion_type),
                !.made.deleted = @ + 2, !.run.incs[deletion_type] = @ + 2]

Deleted(ctx, deletion_type) ==
    [ctx EXCEPT !.stats = add_deleted(@, ctx.run.event.chat_id, deletion_type),
                !.made.deleted = @ + 1, !.run.incs[deletion_type] = @ + 1]

Banned(ctx) ==
    [ctx EXCEPT !.stats = add_banned(@, ctx.run.event.chat_id),
                !.made.banned = @ + 1, !.run.incs.banned = @ + 1]

Ran(ctx, check) == [ctx EXCEPT !.run.checks = Append(@, check)]

Finish(ctx, outcome) == [ctx EXCEPT !.run.pc = "done", !.run.outcome = outcome]

\* return await handler(event, data)
CallHandler(ctx) == [ctx EXCEPT !.run.pc = "handler"]

\* await event.delete() in the branch of one classifier
RequestDelete(ctx, path, category) ==
    [ctx EXCEPT !.run.pc = "delete", !.run.path = path, !.run.category = category,
                !.run.deletes = @ + 1, !.made.delete_requests = @ + 1]

\* A plausible slip: the ban is asked for without looking at the sender.
RequestBan_NoSenderCheck(ctx) ==
    [ctx EXCEPT !.run.pc = "ban", !.run.bans = @ + 1]

\* await bot.ban_chat_member(...), under "if bot and sender_id"
RequestBan(ctx) ==
    IF ctx.run.event.from_user # 0
    THEN [ctx EXCEPT !.run.pc = "ban", !.run.bans = @ + 1]
    ELSE Finish(ctx, "rejected")

---------------------------------------------------------------------------
(* The synchronous stretches of __call__.                                  *)

\* A plausible slip: the link check stands before the character check.
TextStage_LinkFirst(ctx) ==
    LET m == ctx.run.event
        message_text == IF m.text # <<>> THEN m.text ELSE m.caption
    IN  IF message_text = <<>>
        THEN CallHandler(ctx)
        ELSE LET c1 == Ran(ctx, "urls") IN
             IF has_urls(m)
             THEN RequestDelete(c1, "text", "urls")
             ELSE LET c2 == Ran(c1, "forbidden_chars") IN
                  IF has_forbidden_chars(message_text)
                  THEN RequestDelete(c2, "text", "forbidden_chars")
                  ELSE LET c3 == Ran(Checked(c2), "profanity") IN
                       IF Max(m.proba) >= PROFANITY_THRESHOLD
                       THEN RequestDelete(c3, "text", "profanity")
                       ELSE CallHandler(c3)

\* A plausible slip: add_checked is called in the rejecting branch only.
TextStage_ChecksRejectedOnly(ctx) ==
    LET m == ctx.run.event
        message_text == IF m.text # <<>> THEN m.text ELSE m.caption
    IN  IF message_text = <<>>
        THEN CallHandler(ctx)
        ELSE LET c1 == Ran(ctx, "forbidden_chars") IN
             IF has_forbidden_chars(message_text)
             THEN RequestDelete(c1, "text", "forbidden_chars")
             ELSE LET c2 == Ran(c1, "urls") IN
                  IF has_urls(m)
                  THEN RequestDelete(c2, "text", "urls")
                  ELSE LET c3 == Ran(c2, "profanity") IN
                       IF Max(m.proba) >= PROFANITY_THRESHOLD
                       THEN RequestDelete(Checked(c3), "text", "profanity")
                       ELSE CallHandler(c3)

\* A plausible slip: the score is compared with ">" instead of ">=".
TextStage_StrictGreater(ctx) ==
    LET m == ctx.run.event
        message_text == IF m.text # <<>> THEN m.text ELSE m.caption
    IN  IF message_text = <<>>
        THEN CallHandler(ctx)
        ELSE LET c1 == Ran(ctx, "forbidden_chars") IN
             IF has_forbidden_chars(message_text)
             THEN RequestDelete(c1, "text", "forbidden_chars")
             ELSE LET c2 == Ran(c1, "urls") IN
                  IF has_urls(m)
                  THEN RequestDelete(c2, "text", "urls")
                  ELSE LET c3 == Ran(Checked(c2), "profanity") IN
                       IF Max(m.proba) > PROFANITY_THRESHOLD
                       THEN RequestDelete(c3, "text", "profanity")
                       ELSE CallHandler(c3)

\* "if event.text or event.caption:" to the first await under it.
TextStage(ctx) ==
    LET m == ctx.run.event
        message_text == IF m.text # <<>> THEN m.text ELSE m.caption
    IN  IF message_text = <<>>
        THEN CallHandler(ctx)
        ELSE LET c1 == Ran(ctx, "forbidden_chars") IN
             IF has_forbidden_chars(message_text)
             THEN RequestDelete(c1, "text", "forbidden_chars")
             ELSE LET c2 == Ran(c1, "urls") IN
                  IF has_urls(m)
                  THEN RequestDelete(c2, "text", "urls")
                  ELSE LET c3 == Ran(Checked(c2), "profanity") IN
                       IF Max(m.proba) >= PROFANITY_THRESHOLD
                       THEN RequestDelete(c3, "text", "profanity")
                       ELSE CallHandler(c3)

\* "if transcribed_text:" to the first await under it; a None or empty
\* transcript, and a transcript no check rejects, go on to the text branch.
VoiceStage(ctx, transcribed_text) ==
    LET c0 == [ctx EXCEPT !.run.transcribed_text = transcribed_text] IN
    IF transcribed_text.text = <<>>
    THEN TextStage(c0)
    ELSE LET c1 == Ran(c0, "voice_forbidden_chars") IN
         IF has_forbidden_chars(transcribed_text.text)
         THEN RequestDelete(c1, "voice", "forbidden_chars")
         ELSE LET c2 == Ran(c1, "voice_profanity") IN
              IF Max(transcribed_text.proba) >= PROFANITY_THRESHOLD
              THEN RequestDelete(c2, "voice", "profanity")
              ELSE TextStage(c2)

\* "if event.voice:" and the head of _transcribe_voice.  Without the
\* speech_recognition package the adapter returns None at once.  With it,
\* "not self.recognizer" is evaluated, outside any try: __init__ assigns no
\* such attribute, so unless one was assigned from outside the class this is
\* an AttributeError that leaves _transcribe_voice and __call__.
Moderate(ctx) ==
    LET c0 == [ctx EXCEPT !.run.scope = "in_scope"] IN
    IF c0.run.event.voice
    THEN IF ~SPEECH_RECOGNITION_AVAILABLE THEN VoiceStage(c0, NoTranscript)
         ELSE IF ~has_recognizer THEN Finish(c0, "raised")
         ELSE [c0 EXCEPT !.run.pc = "transcribe"]
    ELSE TextStage(c0)

\* A plausible slip: the ban follows the deletion of every category.
AfterDelete_BansEveryCategory(ctx, ok) ==
    LET r  == ctx.run
        c0 == [ctx EXCEPT !.run.delete_ok = ok]
    IN  IF r.path = "text" /\ r.category = "profanity"
        THEN RequestBan(IF ok THEN Deleted(c0, "profanity") ELSE c0)
        ELSE IF r.path = "voice" /\ r.category = "profanity"
        THEN IF ok THEN RequestBan(Deleted(Checked(c0), "profanity"))
                   ELSE Finish(c0, "rejected")
        ELSE RequestBan(IF ok THEN Deleted(Checked(c0), r.category) ELSE c0)

\* The code after "await event.delete()", to the next await.  The counters
\* of a deletion stand inside the try, after the delete.
AfterDelete(ctx, ok) ==
    LET r  == ctx.run
        c0 == [ctx EXCEPT !.run.delete_ok = ok]
    IN  IF r.path = "text" /\ r.category = "profanity"
        THEN RequestBan(IF ok THEN Deleted(c0, "profanity") ELSE c0)
        ELSE IF r.path = "voice" /\ r.category = "profanity"
        THEN IF ok THEN RequestBan(Deleted(Checked(c0), "profanity"))
                   ELSE Finish(c0, "rejected")
        ELSE Finish(IF ok THEN Deleted(Checked(c0), r.category) ELSE c0, "rejected")

\* A plausible slip: the administrators are notified whatever the ban
\* request returned.
AfterBan_NotifiesAlways(ctx, ok) ==
    IF ok
    THEN [Banned(ctx) EXCEPT !.run.pc = "send_message", !.run.ban_ok = TRUE]
    ELSE [ctx EXCEPT !.run.pc = "send_message"]

\* The code after "await bot.ban_chat_member(...)": on success add_banned
\* and the first send of _send_ban_notification.
AfterBan(ctx, ok) ==
    IF ok
    THEN [Banned(ctx) EXCEPT !.run.pc = "send_message", !.run.ban_ok = TRUE]
    ELSE Finish(ctx, "rejected")

\* A plausible slip: the notification goes to the first administrator only.
AfterSend_FirstOnly(ctx, ok) ==
    Finish([ctx EXCEPT !.run.sends = Append(@, ADMIN_IDS[Len(@) + 1]),
                       !.run.send_ok = Append(@, ok)], "rejected")

\* A plausible slip: the try stands around the loop, so the first send that
\* raises ends it.
AfterSend_FailureStops(ctx, ok) ==
    LET c1 == [ctx EXCEPT !.run.sends = Append(@, ADMIN_IDS[Len(@) + 1]),
                          !.run.send_ok = Append(@, ok)]
    IN  IF ~ok \/ Len(c1.run.sends) = Len(ADMIN_IDS)
        THEN Finish(c1, "rejected") ELSE c1

\* One turn of "for admin_id in ADMIN_IDS" in _send_ban_notification: the
\* send returned or raised, and the loop goes on either way.
AfterSend(ctx, ok) ==
    LET c1 == [ctx EXCEPT !.run.sends = Append(@, ADMIN_IDS[Len(@) + 1]),
                          !.run.send_ok = Append(@, ok)]
    IN  IF Len(c1.run.sends) = Len(ADMIN_IDS) THEN Finish(c1, "rejected") ELSE c1

\* A plausible slip: the allow-list is tested before the private chat.
OnMessage_AllowListFirst(c0) ==
    LET m == c0.run.event IN
    IF m.chat_id \notin ALLOWED_CHAT_IDS
    THEN Finish([c0 EXCEPT !.run.scope = "out_of_scope"], "dropped")
    ELSE IF m.chat_type = "private"
    THEN CallHandler([c0 EXCEPT !.run.scope = "private"])
    ELSE IF m.from_user # 0
    THEN [c0 EXCEPT !.run.pc = "get_chat_member"]
    ELSE Moderate(c0)

\* A plausible slip: the allow-list test is missing.
OnMessage_NoAllowList(c0) ==
    LET m == c0.run.event IN
    IF m.chat_type = "private"
    THEN CallHandler([c0 EXCEPT !.run.scope = "private"])
    ELSE IF m.from_user # 0
    THEN [c0 EXCEPT !.run.pc = "get_chat_member"]
    ELSE Moderate(c0)

\* The head of __call__ for a Message: the private test, the allow-list,
\* sender_id, and the call of get_chat_member when there is a sender.
OnMessage(c0) ==
    LET m == c0.run.event IN
    IF m.chat_type = "private"
    THEN CallHandler([c0 EXCEPT !.run.scope = "private"])
    ELSE IF m.chat_id \notin ALLOWED_CHAT_IDS
    THEN Finish([c0 EXCEPT !.run.scope = "out_of_scope"], "dropped")
    ELSE IF m.from_user # 0
    THEN [c0 EXCEPT !.run.pc = "get_chat_member"]
    ELSE Moderate(c0)

\* A plausible slip: only the creator is exempt.
AfterLookup_OnlyCreator(ctx, status) ==
    LET c0 == [ctx EXCEPT !.run.chat_member = status] IN
    IF status = "creator"
    THEN CallHandler([c0 EXCEPT !.run.scope = "privileged"])
    ELSE Moderate(c0)

\* A plausible slip: a failed lookup lets the message through.
AfterLookup_ErrorExempts(ctx, status) ==
    LET c0 == [ctx EXCEPT !.run.chat_member = status] IN
    IF status \in {"creator", "administrator"}
    THEN CallHandler([c0 EXCEPT !.run.scope = "privileged"])
    ELSE IF status = "error"
    THEN CallHandler(c0)
    ELSE Moderate(c0)

\* The code after "await bot.get_chat_member(...)": the creator and the
\* administrators go to the handler; any other status, and the except
\* branch ("error"), go on to the checks.
AfterLookup(ctx, status) ==
    LET c0 == [ctx EXCEPT !.run.chat_member = status] IN
    IF status \in {"creator", "administrator"}
    THEN CallHandler([c0 EXCEPT !.run.scope = "privileged"])
    ELSE Moderate(c0)

Apply(p, ctx) ==
    /\ runs' = [runs EXCEPT ![p] = ctx.run]
    /\ statistics' = ctx.stats
    /\ made' = ctx.made

Here(p) == Ctx(runs[p], statistics, made)

---------------------------------------------------------------------------
(* The steps of __call__.                                                  *)

\* A message arrives.
Receive(p, m) ==
    /\ runs[p].pc \in {"idle", "done"}
    /\ received < MaxMessages
    /\ received' = received + 1
    /\ Apply(p, OnMessage(Ctx([IdleRun EXCEPT !.event = m], statistics, made)))
    /\ UNCHANGED <<daily, SPEECH_RECOGNITION_AVAILABLE, has_recognizer, unban, probe, reports, reported>>

\* A message arrives while the coroutine of another may be suspended at an
\* await: the dispatcher starts one __call__ per update.
ReceiveConcurrently(p, m) ==
    /\ runs[p].pc \in {"idle", "done"}
    /\ received < MaxInFlight
    /\ received' = received + 1
    /\ Apply(p, OnMessage(Ctx([IdleRun EXCEPT !.event = m], statistics, made)))
    /\ UNCHANGED <<daily, SPEECH_RECOGNITION_AVAILABLE, has_recognizer, unban, probe, reports, reported>>

\* get_chat_member returns a status, or raises ("error").
LookupReturns(p) ==
    /\ runs[p].pc = "get_chat_member"
    /\ \E status \in {"creator", "administrator", "member", "error"} :
          Apply(p, AfterLookup(Here(p), status))
    /\ UNCHANGED <<daily, SPEECH_RECOGNITION_AVAILABLE, has_recognizer, unban, probe, received,
                   reports, reported>>

\* The download, conversion and recognition end: a text, or None for every
\* failure inside the try of _transcribe_voice.
TranscribeReturns(p) ==
    /\ runs[p].pc = "transcribe"
    /\ \E t \in Transcripts : Apply(p, VoiceStage(Here(p), t))
    /\ UNCHANGED <<daily, SPEECH_RECOGNITION_AVAILABLE, has_recognizer, unban, probe, received,
                   reports, reported>>

DeleteReturns(p) ==
    /\ runs[p].pc = "delete"
    /\ \E ok \in BOOLEAN : Apply(p, AfterDelete(Here(p), ok))
    /\ UNCHANGED <<daily, SPEECH_RECOGNITION_AVAILABLE, has_recognizer, unban, probe, received,
                   reports, reported>>

BanReturns(p) ==
    /\ runs[p].pc = "ban"
    /\ \E ok \in BOOLEAN : Apply(p, AfterBan(Here(p), ok))
    /\ UNCHANGED <<daily, SPEECH_RECOGNITION_AVAILABLE, has_recognizer, unban, probe, received,
                   reports, reported>>

SendReturns(p) ==
    /\ runs[p].pc = "send_message"
    /\ \E ok \in BOOLEAN : Apply(p, AfterSend(Here(p), ok))
    /\ UNCHANGED <<daily, SPEECH_RECOGNITION_AVAILABLE, has_recognizer, unban, probe, received,
                   reports, reported>>

\* The downstream handler returns.
HandlerReturns(p) ==
    /\ runs[p].pc = "handler"
    /\ Apply(p, Finish([Here(p) EXCEPT !.run.handled = @ + 1], "passed"))
    /\ UNCHANGED <<daily, SPEECH_RECOGNITION_AVAILABLE, has_recognizer, unban, probe, received,
                   reports, reported>>

---------------------------------------------------------------------------
(* send_daily_stats (src/bot.py).                                          *)

\* sent and send_ok are those of the invocation under way; resets counts the
\* statistics.reset() calls made so far.
IdleDaily == [pc |-> "idle", stats_text |-> [activity |-> FALSE], sent |-> 0,
              send_ok |-> <<>>, resets |-> 0]

\* The scheduler fires: the text is rendered and the first send is awaited.
send_daily_stats ==
    /\ daily.pc = "idle"
    /\ reports < MaxReports
    /\ reports' = reports + 1
    /\ LET stats_text == get_stats_text(statistics)
           t == ReportTotals(stats_text)
       IN  /\ daily' = [IdleDaily EXCEPT !.pc = "send_message", !.stats_text = stats_text,
                                          !.resets = daily.resets]
           /\ reported' = [checked |-> reported.checked + t.checked,
                           deleted |-> reported.deleted + t.deleted,
                           banned |-> reported.banned + t.banned]
    /\ UNCHANGED <<runs, statistics, SPEECH_RECOGNITION_AVAILABLE, has_recognizer, unban, probe,
                   received, made>>

\* A plausible slip: the counters are kept when no administrator got the
\* report.
AfterReportSend_KeepsUndelivered(d, s, ok) ==
    LET d1 == [d EXCEPT !.sent = @ + 1, !.send_ok = Append(@, ok)] IN
    IF d1.sent = Len(ADMIN_IDS)
    THEN IF \E i \in 1..Len(d1.send_ok) : d1.send_ok[i]
         THEN [daily |-> [IdleDaily EXCEPT !.resets = d.resets + 1], statistics |-> reset]
         ELSE [daily |-> [IdleDaily EXCEPT !.resets = d.resets], statistics |-> s]
    ELSE [daily |-> d1, statistics |-> s]

\* One turn of "for admin_id in ADMIN_IDS": the send returned or raised, the
\* loop goes on either way, and after the last turn statistics.reset().
AfterReportSend(d, s, ok) ==
    LET d1 == [d EXCEPT !.sent = @ + 1, !.send_ok = Append(@, ok)] IN
    IF d1.sent = Len(ADMIN_IDS)
    THEN [daily |-> [IdleDaily EXCEPT !.resets = d.resets + 1], statistics |-> reset]
    ELSE [daily |-> d1, statistics |-> s]

DailySendReturns ==
    /\ daily.pc = "send_message"
    /\ \E ok \in BOOLEAN :
          LET after == AfterReportSend(daily, statistics, ok)
          IN  /\ daily' = after.daily
              /\ statistics' = after.statistics
    /\ UNCHANGED <<runs, SPEECH_RECOGNITION_AVAILABLE, has_recognizer, unban, probe, received,
                   reports, made, reported>>

---------------------------------------------------------------------------
(* The payload of the unban control: written by _send_ban_notification     *)
(* (profanity_middleware.py:405), read by handle_unban_callback.           *)

Digit == <<"0", "1", "2", "3", "4", "5", "6", "7", "8", "9">>

IsDecimal(c) == \E d \in 1..10 : Digit[d] = c

DigitValue(c) == (CHOOSE d \in 1..10 : Digit[d] = c) - 1

\* str() of a natural number and of an integer.
RECURSIVE StrNat(_)
StrNat(n) == IF n < 10 THEN <<Digit[n + 1]>>
             ELSE StrNat(n \div 10) \o <<Digit[(n % 10) + 1]>>

str(n) == IF n < 0 THEN <<"-">> \o StrNat(-n) ELSE StrNat(n)

\* callback_data=f"unban_{chat_id}_{user_id}"
callback_data(chat_id, user_id) ==
    <<"u", "n", "b", "a", "n", "_">> \o str(chat_id) \o <<"_">> \o str(user_id)

\* c.data.startswith("unban_"), the filter of the router
startswith_unban(data) ==
    Len(data) >= 6 /\ SubSeq(data, 1, 6) = <<"u", "n", "b", "a", "n", "_">>

\* data.split("_"): the pieces between the underscores, empty ones included.
RECURSIVE split(_)
split(data) ==
    IF \A i \in 1..Len(data) : data[i] # "_"
    THEN <<data>>
    ELSE LET i == CHOOSE k \in 1..Len(data) :
                      data[k] = "_" /\ \A j \in 1..(k - 1) : data[j] # "_"
         IN  <<SubSeq(data, 1, i - 1)>> \o split(SubSeq(data, i + 1, Len(data)))

\* The white space int() strips from both ends.
RECURSIVE strip(_)
strip(x) ==
    IF x = <<>> THEN x
    ELSE IF Head(x) = " " THEN strip(Tail(x))
    ELSE IF x[Len(x)] = " " THEN strip(SubSeq(x, 1, Len(x) - 1))
    ELSE x

RECURSIVE DigitsValue(_)
DigitsValue(x) ==
    IF x = <<>> THEN 0
    ELSE 10 * DigitsValue(SubSeq(x, 1, Len(x) - 1)) + DigitValue(x[Len(x)])

ValueError == [ok |-> FALSE, value |-> 0]

\* A plausible slip: the sign is accepted and not applied.
int_SignDropped(x) ==
    LET t == strip(x)
        signed == t # <<>> /\ Head(t) \in {"-", "+"}
        digits == IF signed THEN Tail(t) ELSE t
    IN  IF digits # <<>> /\ \A i \in 1..Len(digits) : IsDecimal(digits[i])
        THEN [ok |-> TRUE, value |-> DigitsValue(digits)]
        ELSE ValueError

\* int(x) of a piece (no underscore can be in it): white space around, one
\* optional sign, at least one digit and nothing else; ValueError otherwise.
int(x) ==
    LET t == strip(x)
        signed == t # <<>> /\ Head(t) \in {"-", "+"}
        digits == IF signed THEN Tail(t) ELSE t
    IN  IF digits # <<>> /\ \A i \in 1..Len(digits) : IsDecimal(digits[i])
        THEN [ok |-> TRUE,
              value |-> IF signed /\ Head(t) = "-" THEN -DigitsValue(digits)
                        ELSE DigitsValue(digits)]
        ELSE ValueError

\* The chats and users named by the payloads of the model: a group with a
\* positive and one with a negative identifier.
PayloadChats == {100, -1002}
PayloadUsers == {55, 7}

\* The payloads an activation may carry: those the notification writes, and
\* others that pass the filter of the router.
Payloads ==
    { callback_data(c, u) : c \in PayloadChats, u \in PayloadUsers }
    \cup
    { <<"u", "n", "b", "a", "n", "_">>,
      <<"u", "n", "b", "a", "n", "_", "1", "0", "0">>,
      <<"u", "n", "b", "a", "n", "_", "1", "_", "2", "_", "3">>,
      <<"u", "n", "b", "a", "n", "_", "x", "_", "5", "5">>,
      <<"u", "n", "b", "a", "n", "_", "1", "0", "0", "_">>,
      <<"u", "n", "b", "a", "n", "_", "_", "5", "5">>,
      <<"u", "n", "b", "a", "n", "_", "-", "_", "5">>,
      <<"u", "n", "b", "a", "n", "_", "1", "-", "2", "_", "5">>,
      <<"u", "n", "b", "a", "n", "_", "+", "5", "_", " ", "7">> }

---------------------------------------------------------------------------
(* handle_unban_callback (src/handlers/common.py:42-78).                   *)

IdleUnban ==
    [pc |-> "idle",            \* the await the coroutine is suspended at
     data |-> <<>>,            \* callback.data
     chat_id |-> 0,
     user_id |-> 0,
     unbans |-> <<>>,          \* the unban_chat_member calls
     unban_ok |-> FALSE,       \* unban_chat_member returned without raising
     answers |-> <<>>,         \* the callback.answer calls: which, and whether it returned
     edits |-> 0,              \* callback.message.edit_text calls
     message |-> [marked |-> FALSE, reply_markup |-> TRUE],  \* the notification
     outcome |-> "none",       \* returned | raised
     activations |-> 0]

\* A plausible slip: the number of pieces is not tested; a payload with
\* fewer than three raises IndexError, caught by the outer except.
handle_unban_callback_NoLengthCheck(u, data) ==
    LET parts == split(data)
        c0 == [IdleUnban EXCEPT !.data = data, !.activations = u.activations + 1]
    IN  IF Len(parts) < 3
        THEN [c0 EXCEPT !.pc = "answer_error"]
        ELSE IF ~int(parts[2]).ok \/ ~int(parts[3]).ok
        THEN [c0 EXCEPT !.pc = "answer_error"]
        ELSE LET chat_id == int(parts[2]).value
                 user_id == int(parts[3]).value
             IN  [c0 EXCEPT !.pc = "unban_chat_member",
                            !.chat_id = chat_id, !.user_id = user_id,
                            !.unbans = <<[chat_id |-> chat_id, user_id |-> user_id,
                                          only_if_banned |-> TRUE]>>]

\* From the entry to the first await: the split, the test of the number of
\* parts, the two int() (a ValueError goes to the outer except) and the call
\* of unban_chat_member.
handle_unban_callback(u, data) ==
    LET parts == split(data)
        c0 == [IdleUnban EXCEPT !.data = data, !.activations = u.activations + 1]
    IN  IF Len(parts) # 3
        THEN [c0 EXCEPT !.pc = "answer_format"]
        ELSE IF ~int(parts[2]).ok \/ ~int(parts[3]).ok
        THEN [c0 EXCEPT !.pc = "answer_error"]
        ELSE LET chat_id == int(parts[2]).value
                 user_id == int(parts[3]).value
             IN  [c0 EXCEPT !.pc = "unban_chat_member",
                            !.chat_id = chat_id, !.user_id = user_id,
                            !.unbans = <<[chat_id |-> chat_id, user_id |-> user_id,
                                          only_if_banned |-> TRUE]>>]

\* A plausible slip: the failure of the unban is swallowed and success is
\* reported.
AfterUnban_ReportsSuccess(u, ok) ==
    [u EXCEPT !.pc = "answer_success", !.unban_ok = ok]

\* After "await bot.unban_chat_member(...)": the success answer, or the
\* answer of the inner except.
AfterUnban(u, ok) ==
    [u EXCEPT !.pc = IF ok THEN "answer_success" ELSE "answer_unban_error",
              !.unban_ok = ok]

\* After an "await callback.answer(...)".  The answer of the wrong format is
\* followed by return; the success answer by the edit; an answer that raises
\* inside the inner try goes to the inner except, one that raises there or
\* in the format branch to the outer except, and one that raises in the
\* outer except leaves the handler.
AfterAnswer(u, ok) ==
    LET u1 == [u EXCEPT !.answers = Append(@, [answer |-> u.pc, ok |-> ok])]
        return == [u1 EXCEPT !.pc = "done", !.outcome = "returned"]
    IN  CASE u.pc = "answer_format" ->
                IF ok THEN return ELSE [u1 EXCEPT !.pc = "answer_error"]
          [] u.pc = "answer_success" ->
                IF ok THEN [u1 EXCEPT !.pc = "edit_text", !.edits = @ + 1]
                ELSE [u1 EXCEPT !.pc = "answer_unban_error"]
          [] u.pc = "answer_unban_error" ->
                IF ok THEN return ELSE [u1 EXCEPT !.pc = "answer_error"]
          [] u.pc = "answer_error" ->
                IF ok THEN return
                ELSE [u1 EXCEPT !.pc = "done", !.outcome = "raised"]

\* After "await callback.message.edit_text(new_text, reply_markup=None)":
\* the bare except swallows a failure.
AfterEdit(u, ok) ==
    [u EXCEPT !.pc = "done", !.outcome = "returned",
              !.message = IF ok THEN [marked |-> TRUE, reply_markup |-> FALSE] ELSE @]

UnbanFrame ==
    UNCHANGED <<runs, statistics, daily, SPEECH_RECOGNITION_AVAILABLE, has_recognizer,
                received, reports, made, reported, probe>>

\* An administrator activates a control whose payload the router hands to
\* handle_unban_callback.
ReceiveCallback(data) ==
    /\ unban.pc \in {"idle", "done"}
    /\ unban.activations < MaxCallbacks
    /\ startswith_unban(data)
    /\ unban' = handle_unban_callback(unban, data)
    /\ UnbanFrame

UnbanReturns ==
    /\ unban.pc = "unban_chat_member"
    /\ \E ok \in BOOLEAN : unban' = AfterUnban(unban, ok)
    /\ UnbanFrame

AnswerReturns ==
    /\ unban.pc \in {"answer_format", "answer_success", "answer_unban_error",
                     "answer_error"}
    /\ \E ok \in BOOLEAN : unban' = AfterAnswer(unban, ok)
    /\ UnbanFrame

EditReturns ==
    /\ unban.pc = "edit_text"
    /\ \E ok \in BOOLEAN : unban' = AfterEdit(unban, ok)
    /\ UnbanFrame

---------------------------------------------------------------------------
(* The specification: messages are handled one after the other by slot 1,  *)
(* and the daily job runs beside them.                                     *)

Init ==
    /\ runs = [p \in Slots |-> IdleRun]
    /\ statistics = reset
    /\ daily = IdleDaily
    /\ SPEECH_RECOGNITION_AVAILABLE \in BOOLEAN
    /\ has_recognizer \in BOOLEAN
    /\ has_recognizer => SPEECH_RECOGNITION_AVAILABLE
    /\ received = 0
    /\ reports = 0
    /\ made = [checked |-> 0, deleted |-> 0, banned |-> 0, delete_requests |-> 0]
    /\ reported = [checked |-> 0, deleted |-> 0, banned |-> 0]
    /\ unban = IdleUnban
    /\ probe = IdleProbe

Next ==
    \/ \E m \in Messages : Receive(1, m)
    \/ LookupReturns(1)
    \/ TranscribeReturns(1)
    \/ DeleteReturns(1)
    \/ BanReturns(1)
    \/ SendReturns(1)
    \/ HandlerReturns(1)
    \/ send_daily_stats
    \/ DailySendReturns

Spec == Init /\ [][Next]_vars

\* Two __call__ coroutines in flight together, and the daily job beside
\* them, in the build as it stands: speech_recognition installed and the
\* middleware constructed by its own __init__.
ConcurrentInit ==
    /\ Init
    /\ SPEECH_RECOGNITION_AVAILABLE
    /\ ~has_recognizer

ConcurrentNext ==
    \/ \E p \in Slots :
          \/ \E m \in ConcurrentMessages : ReceiveConcurrently(p, m)
          \/ LookupReturns(p)
          \/ DeleteReturns(p)
          \/ BanReturns(p)
          \/ SendReturns(p)
          \/ HandlerReturns(p)
    \/ send_daily_stats
    \/ DailySendReturns

ConcurrentSpec == ConcurrentInit /\ [][ConcurrentNext]_vars

\* The character classifier alone, called with every text of ProbeTexts.
ClassifierInit ==
    /\ Init
    /\ ~SPEECH_RECOGNITION_AVAILABLE

ClassifierNext == \E text \in ProbeTexts : Classify(text)

ClassifierSpec == ClassifierInit /\ [][ClassifierNext]_vars

\* The unban handler alone: activations of the control, one after the other.
UnbanInit ==
    /\ Init
    /\ ~SPEECH_RECOGNITION_AVAILABLE

UnbanNext ==
    \/ \E data \in Payloads : ReceiveCallback(data)
    \/ UnbanReturns
    \/ AnswerReturns
    \/ EditReturns

UnbanSpec == UnbanInit /\ [][UnbanNext]_vars

---------------------------------------------------------------------------
(* Properties.  R is the coroutine of slot 1.                              *)

R == runs[1]

MessageText(m) == IF m.text # <<>> THEN m.text ELSE m.caption

HasLatin(text) == \E i \in 1..Len(text) : IsLatin(text[i])

\* A link as the link classifier is described: an annotation of type url or
\* text_link on the text or on the caption, or a match of the pattern.
LinkCarried(m) ==
    \/ \E e \in m.entities : e \in {"url", "text_link"}
    \/ \E e \in m.caption_entities : e \in {"url", "text_link"}
    \/ url_pattern_search(MessageText(m))

\* A message of kind text or captioned media that reached the checks.
InScopeText(r) ==
    /\ r.scope = "in_scope"
    /\ ~r.event.voice
    /\ MessageText(r.event) # <<>>

Untouched(r) ==
    /\ r.checks = <<>>
    /\ r.transcribed_text = NoTranscript
    /\ r.deletes = 0
    /\ r.bans = 0
    /\ r.sends = <<>>
    /\ r.incs = NoIncs

PassedOn(r) ==
    /\ r.pc \in {"handler", "done"}
    /\ r.pc = "done" => r.outcome = "passed" /\ r.handled = 1

\* C1: every increment made by a pipeline run is in exactly one period's
\* reported totals: whenever no report is being delivered, the increments
\* made so far are the ones already reported plus the ones still standing in
\* the counters.
C1_NoIncrementLost ==
    daily.pc = "idle" =>
        /\ made.checked = reported.checked + statistics.total_checked
        /\ made.deleted = reported.deleted + statistics.total_deleted
        /\ made.banned = reported.banned + statistics.total_banned

\* C2: for an in-scope text or captioned message the classifiers run in the
\* order forbidden characters, link, profanity; each runs only if the one
\* before it passed, a rejection stops the chain, and what is enforced is the
\* category of the classifier that rejected.
C2_ClassifierOrder ==
    InScopeText(R) =>
        LET text  == MessageText(R.event)
            order == <<"forbidden_chars", "urls", "profanity">>
            n     == Len(R.checks)
        IN  /\ n \in 1..3
            /\ R.checks = SubSeq(order, 1, n)
            /\ n = 1 <=> has_forbidden_chars(text)
            /\ n = 2 <=> ~has_forbidden_chars(text) /\ LinkCarried(R.event)
            /\ R.category # "none" => R.category = order[n]
            /\ n < 3 => R.category = order[n]
            /\ R.deletes > 0 => R.category # "none"
            /\ R.bans > 0 => R.category = "profanity"
            /\ \A c \in {"forbidden_chars", "urls", "profanity"} :
                  R.incs[c] > 0 => R.category = c

\* A link rejected after the character check passed; the scorer never ran.
C2_Witness ==
    /\ InScopeText(R)
    /\ R.pc = "done"
    /\ R.checks = <<"forbidden_chars", "urls">>
    /\ R.category = "urls"
    /\ R.deletes = 1
    /\ Max(R.event.proba) >= PROFANITY_THRESHOLD

\* C3: a pipeline run ends dropped, or passed to the handler exactly once,
\* or rejected in exactly one category without the handler; and it asks for
\* at most one deletion and at most one ban.
C3_ExactlyOneOutcome ==
    /\ R.deletes <= 1
    /\ R.bans <= 1
    /\ R.handled <= 1
    /\ R.pc = "done" =>
          \/ /\ R.outcome = "dropped"
             /\ R.handled = 0 /\ R.category = "none" /\ R.deletes = 0 /\ R.bans = 0
          \/ /\ R.outcome = "passed"
             /\ R.handled = 1 /\ R.category = "none" /\ R.deletes = 0 /\ R.bans = 0
          \/ /\ R.outcome = "rejected"
             /\ R.handled = 0 /\ R.deletes = 1
             /\ R.category \in {"forbidden_chars", "urls", "profanity"}

\* C4: when the deletion of a rejected message fails, the rejection is
\* counted all the same: checked and the deleted counter of the category
\* each go up by one, and the message is not passed on.
C4_FailedDeleteCounted ==
    (R.deletes = 1 /\ R.pc # "delete" /\ ~R.delete_ok) =>
        /\ R.incs.checked = 1
        /\ R.incs[R.category] = 1
        /\ R.handled = 0
        /\ R.pc # "handler"

Dropped(r) ==
    /\ r.pc = "done"
    /\ r.outcome = "dropped"
    /\ r.handled = 0
    /\ r.chat_member = "none"
    /\ Untouched(r)

\* C5 as stated: every message whose chat id is off the allow-list is
\* dropped: no handler, no lookup, no classifier, no enforcement, no counter.
C5_OffListDropped ==
    (R.pc # "idle" /\ R.event.chat_id \notin ALLOWED_CHAT_IDS) => Dropped(R)

\* C5, amended: every message of a chat that is not private and whose id is
\* off the allow-list is dropped: no handler, no lookup, no classifier, no
\* enforcement, no counter.
C5_OffListGroupDropped ==
    (R.pc # "idle" /\ R.event.chat_type # "private"
                   /\ R.event.chat_id \notin ALLOWED_CHAT_IDS) => Dropped(R)

\* A message with Latin letters and a sender, in the group off the list.
C5_Witness ==
    /\ R.event.chat_id = 200
    /\ R.event.from_user # 0
    /\ HasLatin(R.event.text)
    /\ Dropped(R)

\* C6: a message whose sender the lookup finds to be creator or
\* administrator is allowed whatever it carries: no transcription, no
\* classifier, no delete, no ban, no counter, and it goes to the handler.
C6_PrivilegedAllowed ==
    R.chat_member \in {"creator", "administrator"} =>
        /\ R.scope = "privileged"
        /\ Untouched(R)
        /\ PassedOn(R)

\* An administrator's message with Latin letters, handed on.
C6_Witness ==
    /\ R.chat_member = "administrator"
    /\ HasLatin(R.event.text)
    /\ R.pc = "done"
    /\ R.outcome = "passed"

\* C7: when the lookup raises, the run goes on exactly as for a sender that
\* is a plain member: the step after the failed lookup is the step after the
\* answer "member", the message is in scope, never exempt, and a text or
\* caption is classified.
C7_LookupFailureInScope ==
    /\ R.pc = "get_chat_member" =>
          [AfterLookup(Here(1), "error") EXCEPT !.run.chat_member = "member"]
              = AfterLookup(Here(1), "member")
    /\ R.chat_member = "error" =>
          /\ R.scope = "in_scope"
          /\ (~R.event.voice /\ MessageText(R.event) # <<>>) => R.checks # <<>>
          /\ (R.pc = "handler" \/ R.outcome = "passed") => R.category = "none"

\* After a failed lookup a profane message was deleted and its sender banned.
C7_Witness ==
    /\ R.chat_member = "error"
    /\ R.pc = "done"
    /\ R.outcome = "rejected"
    /\ R.category = "profanity"
    /\ R.deletes = 1
    /\ R.ban_ok

\* C8: a message of a private chat, on the allow-list or not, meets no
\* lookup, no classifier, no delete, no ban and no counter, and goes to the
\* handler.
C8_PrivateExempt ==
    (R.pc # "idle" /\ R.event.chat_type = "private") =>
        /\ R.scope = "private"
        /\ R.chat_member = "none"
        /\ Untouched(R)
        /\ PassedOn(R)

\* A private message with Latin letters, of a chat off the allow-list,
\* handed on.
C8_Witness ==
    /\ R.event.chat_type = "private"
    /\ R.event.chat_id \notin ALLOWED_CHAT_IDS
    /\ HasLatin(R.event.text)
    /\ R.pc = "done"
    /\ R.outcome = "passed"

\* C9: a text with a Latin letter, given to the classifiers, is rejected for
\* forbidden characters whatever the scorer would say and whatever the
\* annotations: the text or caption of an in-scope message of kind text or
\* captioned media, and the transcript of a voice message.  The scorer is
\* not asked, nobody is banned, the handler is not called.
C9_LatinRejected ==
    /\ (InScopeText(R) /\ HasLatin(MessageText(R.event))) =>
          /\ R.category = "forbidden_chars"
          /\ R.checks = <<"forbidden_chars">>
          /\ R.deletes = 1 /\ R.bans = 0 /\ R.handled = 0
          /\ R.pc \in {"delete", "done"}
          /\ R.pc = "done" => R.outcome = "rejected"
    /\ HasLatin(R.transcribed_text.text) =>
          /\ R.category = "forbidden_chars"
          /\ R.checks = <<"voice_forbidden_chars">>
          /\ R.deletes = 1 /\ R.bans = 0 /\ R.handled = 0
          /\ R.pc \in {"delete", "done"}
          /\ R.pc = "done" => R.outcome = "rejected"

\* A Latin text the scorer rates above the threshold, rejected for its
\* characters.
C9_Witness ==
    /\ InScopeText(R)
    /\ HasLatin(R.event.text)
    /\ Max(R.event.proba) >= PROFANITY_THRESHOLD
    /\ R.pc = "done"
    /\ R.outcome = "rejected"
    /\ R.category = "forbidden_chars"

\* C10: an in-scope text or captioned message without forbidden characters
\* that carries a link (an annotation url or text_link on the text or the
\* caption, or a pattern match) is rejected as a link: the deletion is asked
\* for, no ban, and the scorer is not invoked.
C10_LinkRejected ==
    (/\ InScopeText(R)
     /\ ~has_forbidden_chars(MessageText(R.event))
     /\ LinkCarried(R.event)) =>
        /\ R.category = "urls"
        /\ R.checks = <<"forbidden_chars", "urls">>
        /\ R.deletes = 1 /\ R.bans = 0 /\ R.handled = 0
        /\ R.pc \in {"delete", "done"}
        /\ R.pc = "done" => R.outcome = "rejected"

\* A captioned media message whose caption carries a url annotation.
C10_Witness ==
    /\ InScopeText(R)
    /\ R.event.text = <<>>
    /\ "url" \in R.event.caption_entities
    /\ R.pc = "done"
    /\ R.outcome = "rejected"
    /\ R.category = "urls"
    /\ R.incs.urls = 1

\* The message of the scenario: the text "visit http://x.com", posted in the
\* allowed chat 100 by a sender who is not privileged.
VisitScenario(r) ==
    /\ r.scope = "in_scope"
    /\ r.event.chat_id = 100
    /\ ~r.event.voice
    /\ r.event.text = T_visit

Reaches(proba) == \E i \in 1..Len(proba) : proba[i] >= PROFANITY_THRESHOLD

AllTransportOk(r) ==
    /\ r.chat_member # "error"
    /\ r.deletes > 0 => r.delete_ok
    /\ r.bans > 0 => r.ban_ok
    /\ \A i \in 1..Len(r.send_ok) : r.send_ok[i]

\* C13: a text message without forbidden characters and without a link,
\* scored at or above the threshold, from an identified sender who is not
\* privileged, every transport call succeeding: it is rejected for
\* profanity, deleted, the sender is banned, the counters checked, deleted
\* (category profanity) and banned of that chat each rise by one, and one
\* notification goes to each configured administrator.
C13_ProfanityEnforced ==
    (/\ InScopeText(R)
     /\ R.event.from_user # 0
     /\ ~has_forbidden_chars(MessageText(R.event))
     /\ ~LinkCarried(R.event)
     /\ Reaches(R.event.proba)
     /\ R.pc = "done"
     /\ AllTransportOk(R)) =>
        /\ R.outcome = "rejected" /\ R.category = "profanity"
        /\ R.deletes = 1 /\ R.delete_ok
        /\ R.bans = 1 /\ R.ban_ok
        /\ R.handled = 0
        /\ R.incs = [checked |-> 1, forbidden_chars |-> 0, urls |-> 0,
                     profanity |-> 1, banned |-> 1]
        /\ R.sends = ADMIN_IDS
        /\ (received = 1 /\ reports = 0) =>
              Row(statistics, R.event.chat_id) =
                    [checked |-> 1, deleted |-> 1, deleted_forbidden_chars |-> 0,
                     deleted_urls |-> 0, deleted_profanity |-> 1, banned |-> 1]

\* The scenario: scorer answer [0.95], member sender, all calls returned.
C13_Witness ==
    /\ InScopeText(R)
    /\ R.event.chat_id = 100
    /\ R.event.from_user = 55
    /\ R.chat_member = "member"
    /\ R.event.proba = <<950>>
    /\ R.pc = "done"
    /\ R.category = "profanity"
    /\ R.delete_ok /\ R.ban_ok
    /\ R.sends = ADMIN_IDS
    /\ R.send_ok = <<TRUE, TRUE>>
    /\ statistics.total_banned = 1

\* C14: after a successful ban one send is attempted for every configured
\* administrator, in order and exactly once each, whichever of the sends
\* fail; the ban, the counters and the verdict are what they were when the
\* ban returned.
C14_NotifiedIndependently ==
    R.ban_ok =>
        /\ R.pc \in {"send_message", "done"}
        /\ R.sends = SubSeq(ADMIN_IDS, 1, Len(R.sends))
        /\ Len(R.send_ok) = Len(R.sends)
        /\ R.pc = "send_message" => Len(R.sends) < Len(ADMIN_IDS)
        /\ R.pc = "done" => R.sends = ADMIN_IDS /\ R.outcome = "rejected"
        /\ R.category = "profanity"
        /\ R.bans = 1
        /\ R.incs = [checked |-> 1, forbidden_chars |-> 0, urls |-> 0,
                     profanity |-> IF R.delete_ok THEN 1 ELSE 0, banned |-> 1]

\* The send to the first administrator failed, the second was still made.
C14_Witness ==
    /\ R.ban_ok
    /\ R.pc = "done"
    /\ R.sends = ADMIN_IDS
    /\ R.send_ok = <<FALSE, TRUE>>
    /\ R.outcome = "rejected"
    /\ R.incs.banned = 1

\* C15: a ban is asked for only when the rejection is for profanity, only
\* once the deletion of that message has been attempted and has returned or
\* raised, and only when the sender is identified; a profanity-rejected
\* message without a sender (a channel post) is deleted and causes no ban,
\* no banned increment and no notification.
C15_BanOnlyForProfanity ==
    /\ R.bans > 0 =>
          /\ R.category = "profanity"
          /\ R.deletes = 1
          /\ R.pc \notin {"delete", "transcribe", "get_chat_member", "handler"}
          /\ R.event.from_user # 0
    /\ R.category \in {"forbidden_chars", "urls"} =>
          R.bans = 0 /\ R.incs.banned = 0 /\ R.sends = <<>>
    /\ (R.category = "profanity" /\ R.event.from_user = 0) =>
          /\ R.deletes = 1
          /\ R.bans = 0 /\ R.incs.banned = 0 /\ R.sends = <<>>
          /\ R.pc \in {"delete", "done"}
          /\ R.pc = "done" => R.outcome = "rejected"

\* A channel post rejected for profanity: deleted, nobody banned.
C15_Witness ==
    /\ R.scope = "in_scope"
    /\ R.event.from_user = 0
    /\ R.category = "profanity"
    /\ R.pc = "done"
    /\ R.deletes = 1 /\ R.delete_ok
    /\ R.bans = 0
    /\ R.incs.profanity = 1 /\ R.incs.banned = 0

\* C16: the notification is sent, and the banned counter incremented,
\* exactly when the ban request succeeded; a ban request that failed is not
\* repeated, nobody is notified and the banned counter stays.
C16_NotifiedIffBanned ==
    /\ R.bans <= 1
    /\ R.incs.banned = (IF R.ban_ok THEN 1 ELSE 0)
    /\ R.sends # <<>> => R.ban_ok
    /\ R.ban_ok => R.bans = 1
    /\ R.pc = "send_message" => R.ban_ok
    /\ R.pc = "done" => (R.sends = ADMIN_IDS <=> R.ban_ok)
    /\ (R.pc = "done" /\ R.bans = 1 /\ ~R.ban_ok) =>
          R.sends = <<>> /\ R.incs.banned = 0 /\ R.outcome = "rejected"

\* A ban request that failed: the run ended with nobody notified.
C16_Witness ==
    /\ R.pc = "done"
    /\ R.category = "profanity"
    /\ R.bans = 1
    /\ ~R.ban_ok
    /\ R.sends = <<>>
    /\ R.incs.banned = 0
    /\ statistics.total_banned = 0

\* C17: an in-scope voice message whose transcription gave None is left
\* untouched: it is passed on, nothing is deleted, nobody is banned, no
\* classifier runs on it and no counter changes.
C17_UntranscribedUntouched ==
    (/\ R.scope = "in_scope"
     /\ R.event.voice
     /\ R.pc # "transcribe"
     /\ R.outcome # "raised"
     /\ R.transcribed_text = NoTranscript) =>
        Untouched(R) /\ PassedOn(R)

\* C18: the transcription of a voice message always completes, with a text
\* or with None: no exception leaves it, so none leaves the pipeline run
\* that called it.
C18_TranscribeNeverRaises ==
    (R.scope = "in_scope" /\ R.event.voice) => R.outcome # "raised"

\* A piece that denotes an integer: digits, at most one sign before them,
\* white space around.
DenotesInteger(x) ==
    \E a, b \in 1..Len(x) :
        /\ a <= b
        /\ \A i \in a..b : x[i] \in {"0", "1", "2", "3", "4", "5", "6", "7", "8", "9"}
        /\ \A i \in (b + 1)..Len(x) : x[i] = " "
        /\ \/ \A i \in 1..(a - 1) : x[i] = " "
           \/ /\ a > 1
              /\ x[a - 1] \in {"+", "-"}
              /\ \A i \in 1..(a - 2) : x[i] = " "

\* A payload that is the prefix unban, a chat id and a user id, both
\* integers, separated by single underscores, and nothing more.
WellFormedPayload(data) ==
    \E i, j \in 1..Len(data) :
        /\ i < j
        /\ \A k \in 1..Len(data) : data[k] = "_" <=> k \in {i, j}
        /\ SubSeq(data, 1, i - 1) = <<"u", "n", "b", "a", "n">>
        /\ DenotesInteger(SubSeq(data, i + 1, j - 1))
        /\ DenotesInteger(SubSeq(data, j + 1, Len(data)))

\* C19: an activation with a malformed payload asks for no unban and does
\* not edit the notification; the only acknowledgements it sends are error
\* acknowledgements, and it sends at least one.
C19_MalformedRefused ==
    (unban.pc # "idle" /\ ~WellFormedPayload(unban.data)) =>
        /\ unban.unbans = <<>>
        /\ unban.edits = 0
        /\ unban.message = [marked |-> FALSE, reply_markup |-> TRUE]
        /\ unban.pc \in {"answer_format", "answer_error", "done"}
        /\ \A i \in 1..Len(unban.answers) :
              unban.answers[i].answer \in {"answer_format", "answer_error"}
        /\ unban.pc = "done" =>
              /\ unban.answers # <<>>
              /\ unban.outcome = "returned" =>
                    unban.answers[Len(unban.answers)].ok

\* The payload "unban_1_2_3", answered with the error of the wrong format.
C19_Witness ==
    /\ unban.pc = "done"
    /\ unban.data = <<"u", "n", "b", "a", "n", "_", "1", "_", "2", "_", "3">>
    /\ unban.answers = <<[answer |-> "answer_format", ok |-> TRUE]>>
    /\ unban.unbans = <<>>
    /\ unban.outcome = "returned"

\* C20: after a well-formed payload whose unban request succeeded, the
\* unban was asked for once, for the chat and the user the payload encodes
\* and with only_if_banned; the success acknowledgement is sent and the edit
\* of the notification is attempted; no error acknowledgement is sent,
\* whether the edit succeeds or fails.
C20_UnbanAcknowledgedAndMarked ==
    (WellFormedPayload(unban.data) /\ unban.unban_ok) =>
        /\ Len(unban.unbans) = 1
        /\ unban.unbans[1].only_if_banned
        /\ \A c \in PayloadChats, u \in PayloadUsers :
              unban.data = callback_data(c, u) =>
                  unban.unbans[1].chat_id = c /\ unban.unbans[1].user_id = u
        /\ unban.pc \in {"answer_success", "edit_text", "done"}
        /\ \A i \in 1..Len(unban.answers) :
              unban.answers[i].answer = "answer_success"
        /\ unban.pc = "done" =>
              /\ unban.edits = 1
              /\ unban.outcome = "returned"

\* The sum of one counter over the rows of by_chat.
RECURSIVE SumOver(_, _, _)
SumOver(by_chat, chats, field) ==
    IF chats = {} THEN 0
    ELSE LET c == CHOOSE x \in chats : TRUE
         IN  by_chat[c][field] + SumOver(by_chat, chats \ {c}, field)

SumByChat(s, field) == SumOver(s.by_chat, DOMAIN s.by_chat, field)

\* C21: when the first report is rendered, the N add_checked calls made so
\* far by the runs in flight together are all in it: the counters hold N
\* checked, globally and summed over the chats, the text reports N (no
\* activity for N = 0) and the rows it shows sum to N; and the reset after
\* the sends leaves every counter, global and per chat, at zero.
C21_SnapshotCountsEveryCheck ==
    [][ /\ (daily.pc = "idle" /\ daily'.pc = "send_message" /\ reports = 0) =>
              /\ statistics.total_checked = made.checked
              /\ SumByChat(statistics, "checked") = made.checked
              /\ IF made.checked = 0
                 THEN ~daily'.stats_text.activity
                 ELSE /\ daily'.stats_text.activity
                      /\ daily'.stats_text.total_checked = made.checked
                      /\ daily'.stats_text.by_chat # <<>> =>
                            SumOver(daily'.stats_text.by_chat,
                                    DOMAIN daily'.stats_text.by_chat, "checked")
                                = made.checked
        /\ (daily.pc = "send_message" /\ daily'.pc = "idle") =>
              /\ statistics'.total_checked = 0 /\ statistics'.total_deleted = 0
              /\ statistics'.total_banned = 0
              /\ statistics'.deleted_forbidden_chars = 0
              /\ statistics'.deleted_urls = 0
              /\ statistics'.deleted_profanity = 0
              /\ \A c \in {100, 101} : Row(statistics', c) = ZeroRow
    ]_vars

\* Two runs suspended at an await, each after its add_checked, one in chat
\* 100 and one in chat 101, and a report that was rendered with both.
C21_Witness ==
    /\ runs[1].pc = "delete" /\ runs[1].incs.checked = 1
    /\ runs[2].pc = "handler" /\ runs[2].incs.checked = 1
    /\ runs[1].event.chat_id # runs[2].event.chat_id
    /\ daily.pc = "send_message"
    /\ daily.stats_text.activity
    /\ daily.stats_text.total_checked = 2

\* C22: a deletion is counted only for a message whose deletion was asked
\* of the transport, and at most once for it: a run counts one deletion at
\* most, in the category it rejected for and after its one delete call, and
\* the deleted counter, globally, by category and summed over the chats,
\* never exceeds the number of delete calls made.
C22_CountedDeletionWasRequested ==
    /\ R.deletes <= 1
    /\ R.incs.forbidden_chars + R.incs.urls + R.incs.profanity <= R.deletes
    /\ \A cat \in {"forbidden_chars", "urls", "profanity"} :
          R.incs[cat] > 0 => R.category = cat /\ R.pc # "delete"
    /\ made.deleted <= made.delete_requests
    /\ statistics.total_deleted <= made.delete_requests
    /\ statistics.deleted_forbidden_chars + statistics.deleted_urls
          + statistics.deleted_profanity <= made.delete_requests
    /\ SumByChat(statistics, "deleted") <= made.delete_requests
    /\ SumByChat(statistics, "deleted_forbidden_chars")
          + SumByChat(statistics, "deleted_urls")
          + SumByChat(statistics, "deleted_profanity") <= made.delete_requests

\* A deletion counted under urls, for a message whose delete was called.
C22_Witness ==
    /\ R.pc = "done"
    /\ R.deletes = 1 /\ R.delete_ok
    /\ R.incs.urls = 1
    /\ made.delete_requests = 1
    /\ statistics.total_deleted = 1
    /\ statistics.deleted_urls = 1
    /\ Row(statistics, R.event.chat_id).deleted = 1

\* C23: a message posted in an allowed chat on behalf of a sender-chat of
\* the exempt set is not moderated: no classifier runs on it, it is not
\* deleted, nobody is banned and it is passed on.
C23_ExemptSenderChatPassed ==
    (/\ R.pc # "idle"
     /\ R.event.chat_id \in ALLOWED_CHAT_IDS
     /\ R.event.chat_type # "private"
     /\ R.event.sender_chat \in EXEMPT_SENDER_CHAT_IDS) =>
        /\ R.checks = <<>>
        /\ R.deletes = 0 /\ R.bans = 0 /\ R.sends = <<>>
        /\ R.pc \in {"get_chat_member", "handler", "done"}
        /\ R.pc = "done" => R.outcome = "passed" /\ R.handled = 1

\* The allow-set as the classifier is described: Russian letters, digits,
\* the fixed punctuation set, white space and the emoji ranges.
IsRussianLetter(c) == c \in 1040..1103 \/ c \in {1025, 1105}

InAllowSet(c) ==
    \/ IsRussianLetter(c)
    \/ c \in 48..57
    \/ c \in {46, 44, 33, 63, 58, 59, 45, 40, 41, 91, 93, 123, 125, 34, 39,
              171, 187, 8212, 8230}
    \/ IsSpace(c)
    \/ is_emoji(c)

\* C29: the character classifier rejects a text exactly when some character
\* of it is a Latin letter, a listed symbol or outside the allow-set; so a
\* text of allow-set characters, a line break or a tab among them, is not
\* rejected, a text with a Cyrillic letter that is not Russian is rejected,
\* and the empty text is not rejected.
C29_RejectsIffOutsideAllowSet ==
    probe.called =>
        (probe.rejected <=>
            \E i \in 1..Len(probe.text) :
                \/ IsLatin(probe.text[i])
                \/ probe.text[i] \in forbidden_special_chars
                \/ ~InAllowSet(probe.text[i]))

\* What a run was given: its message and what its transport calls returned.
Given(r) == <<r.event, r.chat_member, r.delete_ok, r.ban_ok, r.send_ok>>

\* What a run did: verdict, requests and increments.
Done(r) == <<r.outcome, r.category, r.deletes, r.bans, r.sends, r.handled, r.incs>>

\* C24: whichever of the lookup, the deletion, the ban and the
\* notifications fail, no run raises, and what a finished run did is
\* settled by its own message and by what its own calls returned, whatever
\* the other run in flight met.
C24_FailuresIsolated ==
    /\ \A p \in Slots : runs[p].outcome # "raised"
    /\ \A p, q \in Slots :
          (runs[p].pc = "done" /\ runs[q].pc = "done" /\ Given(runs[p]) = Given(runs[q]))
              => Done(runs[p]) = Done(runs[q])
    /\ made.checked >= runs[1].incs.checked
    /\ made.checked >= runs[2].incs.checked

\* C25: an in-scope text or captioned message without forbidden characters,
\* without a link and scored below the threshold is allowed: no delete and
\* no ban is asked for, checked rises by one for its chat, deleted and
\* banned stay, and the message is passed to the handler.
C25_CleanMessageAllowed ==
    (/\ InScopeText(R)
     /\ ~has_forbidden_chars(MessageText(R.event))
     /\ ~LinkCarried(R.event)
     /\ ~Reaches(R.event.proba)) =>
        /\ R.category = "none"
        /\ R.checks = <<"forbidden_chars", "urls", "profanity">>
        /\ R.deletes = 0 /\ R.bans = 0 /\ R.sends = <<>>
        /\ R.incs = [NoIncs EXCEPT !.checked = 1]
        /\ PassedOn(R)
        /\ (received = 1 /\ reports = 0) =>
              /\ Row(statistics, R.event.chat_id) = [ZeroRow EXCEPT !.checked = 1]
              /\ statistics.total_checked = 1
              /\ statistics.total_deleted = 0 /\ statistics.total_banned = 0

\* The text "да" scored 0.699 from a member of chat 100, handled downstream.
C25_Witness ==
    /\ InScopeText(R)
    /\ R.event.chat_id = 100
    /\ R.chat_member = "member"
    /\ R.event.text = T_da
    /\ R.event.proba = <<699>>
    /\ R.pc = "done"
    /\ R.outcome = "passed"
    /\ R.handled = 1
    /\ statistics.total_checked = 1

\* The text message with the content of a transcript, from the same sender
\* in the same chat.
AsText(m, t) ==
    [m EXCEPT !.voice = FALSE, !.text = t.text, !.caption = <<>>,
              !.entities = {}, !.caption_entities = {}, !.proba = t.proba]

\* The text path run to its end on that message, each transport call
\* returning what the same call returned in the run r (a send that r never
\* made succeeds).
TextPathOf(r) ==
    LET start == [IdleRun EXCEPT !.event = AsText(r.event, r.transcribed_text),
                                 !.scope = "in_scope", !.chat_member = r.chat_member]
        c1 == TextStage(Ctx(start, reset, made))
        c2 == IF c1.run.pc = "delete" THEN AfterDelete(c1, r.delete_ok) ELSE c1
        c3 == IF c2.run.pc = "ban" THEN AfterBan(c2, r.ban_ok) ELSE c2
        c4 == IF c3.run.pc = "send_message"
              THEN AfterSend(c3, Len(r.send_ok) < 1 \/ r.send_ok[1]) ELSE c3
        c5 == IF c4.run.pc = "send_message"
              THEN AfterSend(c4, Len(r.send_ok) < 2 \/ r.send_ok[2]) ELSE c4
        c6 == IF c5.run.pc = "handler"
              THEN Finish([c5 EXCEPT !.run.handled = @ + 1], "passed") ELSE c5
    IN  c6.run

C28_UnbanFailureAcknowledged ==
    /\ (unban.unbans # <<>> /\ unban.pc # "unban_chat_member" /\ ~unban.unban_ok) =>
          /\ unban.edits = 0
          /\ unban.message = [marked |-> FALSE, reply_markup |-> TRUE]
          /\ unban.pc \in {"answer_unban_error", "answer_error", "done"}
          /\ unban.answers # <<>> => unban.answers[1].answer = "answer_unban_error"
          /\ unban.pc = "done" => unban.answers # <<>>
    /\ (unban.pc = "done"
        /\ \A i \in 1..Len(unban.answers) : unban.answers[i].ok) =>
          /\ Len(unban.answers) = 1
          /\ unban.outcome = "returned"

\* The unban failed, the failure was acknowledged, the controls are there.
C28_Witness ==
    /\ unban.pc = "done"
    /\ Len(unban.unbans) = 1
    /\ ~unban.unban_ok
    /\ unban.answers = <<[answer |-> "answer_unban_error", ok |-> TRUE]>>
    /\ unban.message.reply_markup
    /\ unban.edits = 0

\* C30: an invocation of the daily job attempts one send for every
\* administrator, whether the sends before it returned or raised, and after
\* the last attempt the counters are reset, once, whether or not any send
\* succeeded: each finished invocation has made exactly one reset.
C30_ReportSentToAllThenReset ==
    /\ [](/\ daily.pc = "idle" => daily.resets = reports
          /\ daily.pc = "send_message" =>
                /\ daily.resets = reports - 1
                /\ daily.sent < Len(ADMIN_IDS)
                /\ Len(daily.send_ok) = daily.sent)
    /\ [][ (daily.pc = "send_message" /\ daily' # daily) =>
              IF daily.sent + 1 < Len(ADMIN_IDS)
              THEN /\ daily'.pc = "send_message"
                   /\ daily'.sent = daily.sent + 1
                   /\ daily'.stats_text = daily.stats_text
                   /\ daily'.resets = daily.resets
              ELSE /\ daily'.pc = "idle"
                   /\ daily'.resets = daily.resets + 1
                   /\ statistics' = reset
       ]_vars

\* The send to the first administrator failed and the second is awaited,
\* with a report that had something to tell.
C30_Witness ==
    /\ daily.pc = "send_message"
    /\ daily.send_ok = <<FALSE>>
    /\ daily.sent = 1
    /\ daily.stats_text.activity
    /\ statistics.total_checked > 0

\* The six counters of the aggregator, by the name of the global counter
\* and the name of the field of a row.
CounterFields ==
    { <<"total_checked", "checked">>, <<"total_deleted", "deleted">>,
      <<"deleted_forbidden_chars", "deleted_forbidden_chars">>,
      <<"deleted_urls", "deleted_urls">>,
      <<"deleted_profanity", "deleted_profanity">>,
      <<"total_banned", "banned">> }

\* C31: in every state, with runs suspended at their awaits and the reset of
\* the daily job between them, each global counter is the sum of the rows'
\* counter of the same name, and total_deleted is the sum of the three
\* categories, globally and in each row; and a step that is not the reset
\* lowers no counter, global or of a row, and drops no row.
C31_CountersAddUp ==
    /\ [](/\ \A f \in CounterFields : statistics[f[1]] = SumByChat(statistics, f[2])
          /\ statistics.total_deleted =
                statistics.deleted_forbidden_chars + statistics.deleted_urls
                    + statistics.deleted_profanity
          /\ \A c \in DOMAIN statistics.by_chat :
                statistics.by_chat[c].deleted =
                    statistics.by_chat[c].deleted_forbidden_chars
                        + statistics.by_chat[c].deleted_urls
                        + statistics.by_chat[c].deleted_profanity)
    /\ [][ daily'.resets = daily.resets =>
              /\ \A f \in CounterFields : statistics'[f[1]] >= statistics[f[1]]
              /\ \A c \in DOMAIN statistics.by_chat :
                    /\ c \in DOMAIN statistics'.by_chat
                    /\ \A f \in CounterFields :
                          statistics'.by_chat[c][f[2]] >= statistics.by_chat[c][f[2]]
       ]_vars

\* After a reset that fell while two runs, one in each chat, were suspended
\* at an await: two rows, deletions in two categories, a ban, and the totals
\* are the sums of the rows.
C31_Witness ==
    /\ daily.resets = 1
    /\ DOMAIN statistics.by_chat = {100, 101}
    /\ statistics.total_deleted = 2
    /\ statistics.by_chat[100].deleted = 1 /\ statistics.by_chat[101].deleted = 1
    /\ statistics.deleted_profanity = 1
    /\ statistics.deleted_urls = 1
    /\ statistics.total_banned = 1
    /\ statistics.by_chat[100].banned = 1

\* C32: in every state, a reset of the daily job while a run is suspended at
\* an await included, the deleted counter does not exceed the checked
\* counter, globally and in each row, so the report that would be rendered
\* from the state shows activity whenever a deletion is counted.
C32_DeletedWithinChecked ==
    /\ statistics.total_deleted <= statistics.total_checked
    /\ \A c \in DOMAIN statistics.by_chat :
          statistics.by_chat[c].deleted <= statistics.by_chat[c].checked
    /\ statistics.total_deleted > 0 => get_stats_text(statistics).activity

\* C33: the payload the notification writes for a chat and a user, the chat
\* with a negative identifier included, is taken apart by the handler into
\* three pieces and decoded into the same two identifiers: the activation
\* is never refused, and the one unban it asks for names that chat and that
\* user; so two different bans never share a payload.
C33_ReferenceRoundTrips ==
    \A c \in PayloadChats, u \in PayloadUsers :
        (unban.pc # "idle" /\ unban.data = callback_data(c, u)) =>
            /\ startswith_unban(unban.data)
            /\ split(unban.data) = <<<<"u", "n", "b", "a", "n">>, str(c), str(u)>>
            /\ int(str(c)) = [ok |-> TRUE, value |-> c]
            /\ int(str(u)) = [ok |-> TRUE, value |-> u]
            /\ unban.chat_id = c /\ unban.user_id = u
            /\ unban.unbans = <<[chat_id |-> c, user_id |-> u, only_if_banned |-> TRUE]>>
            /\ \A i \in 1..Len(unban.answers) : unban.answers[i].answer # "answer_format"
            /\ \A c2 \in PayloadChats, u2 \in PayloadUsers :
                  callback_data(c2, u2) = unban.data => c2 = c /\ u2 = u

\* The payload written for the group -1002 and the user 7 was activated and
\* the unban asked for is that of user 7 in chat -1002.
C33_Witness ==
    /\ unban.pc = "done"
    /\ unban.data = callback_data(-1002, 7)
    /\ unban.chat_id = -1002 /\ unban.user_id = 7
    /\ Len(unban.unbans) = 1
    /\ unban.unbans[1].chat_id = -1002 /\ unban.unbans[1].user_id = 7
    /\ unban.unban_ok

=============================================================================
